---- MODULE Spec2Model ----
(***************************************************************************)
(* URLValidator (src/Deliverable2.py): the credibility scoring pipeline    *)
(* rate_url_validity and the methods it is built from.                     *)
(*                                                                         *)
(* Python strings are TLA+ strings.  A float score is a record [t, e]:     *)
(* t is the value in tenths and e in {-1, 0, 1} says that the IEEE-754     *)
(* double lies just below, at, or just above t/10.  A cosine similarity is *)
(* an integer number of thousandths.                                       *)
(***************************************************************************)
EXTENDS Integers, Sequences, FiniteSets, TLC

VARIABLES
    pc,         \* position of the running rate_url_validity call
    frame,      \* its local variables, by name, as far as they are assigned
    answers,    \* what the outside world answered during the call
    trace,      \* the methods the call has executed, in order
    result,     \* the value the call returned
    self,       \* the attributes of the URLValidator object
    remembered, \* one completed call: [key, result, age], age 1 once a later call began
    unit        \* a direct call of a single method

vars == <<pc, frame, answers, trace, result, self, remembered, unit>>

(***************************************************************************)
(* Bounds of the model.                                                    *)
(***************************************************************************)
MaxGrid == 24           \* direct calls of get_star_rating: scores -5*MaxGrid .. 5*MaxGrid
MaxSubScore == 100      \* direct calls of generate_explanation: sub-scores up to here

(***************************************************************************)
(* Program constants.                                                      *)
(***************************************************************************)
W_DOMAIN == 3           \* 0.3, in tenths
W_SIMILARITY == 3       \* 0.3
W_FACT == 2             \* 0.2
W_BIAS == 2             \* 0.2
THRESHOLD == 50         \* generate_explanation: "< 50"
SENTIMENT_PREFIX == 512 \* content[:512]
STARS_PER == 20         \* score / 20
MOCK_MOD == 5           \* len(...) % 5 + 1
MIN_STARS == 1
MAX_STARS == 5
BIAS_POSITIVE == 100
BIAS_NEUTRAL == 50
BIAS_OTHER == 30
PERCENT == 100          \* cos_sim * 100

\* the glyph of the icon: in the source a literal of two characters (a-circumflex
\* and U+00AD, the bytes left of a star emoji), written here in ASCII
STAR == "a-"

(***************************************************************************)
(* Python string and number primitives.                                    *)
(***************************************************************************)
Min(a, b) == IF a <= b THEN a ELSE b
Max(a, b) == IF a >= b THEN a ELSE b

\* needle in haystack
In(needle, haystack) ==
    \E i \in 1..(Len(haystack) - Len(needle) + 1) :
        SubSeq(haystack, i, i + Len(needle) - 1) = needle

\* s[:n]
Prefix(s, n) == SubSeq(s, 1, Min(n, Len(s)))

\* sep.join(parts)
RECURSIVE Join(_, _)
Join(sep, parts) ==
    IF parts = <<>> THEN ""
    ELSE IF Len(parts) = 1 THEN parts[1]
    ELSE parts[1] \o sep \o Join(sep, Tail(parts))

\* s * n
RECURSIVE Repeat(_, _)
Repeat(s, n) == IF n <= 0 THEN "" ELSE s \o Repeat(s, n - 1)

Digits == <<"0", "1", "2", "3", "4", "5", "6", "7", "8", "9">>

\* str(n) for n >= 0, as the f-string formats the status code
RECURSIVE Str(_)
Str(n) == IF n < 10 THEN Digits[n + 1] ELSE Str(n \div 10) \o Digits[(n % 10) + 1]

\* int(x) of x = n/d, d > 0: truncation toward zero
IntTrunc(n, d) == IF n >= 0 THEN n \div d ELSE -((-n) \div d)

\* round(x) of the float x = (s.t / 10) / STARS_PER: round half to even
Round(s) ==
    LET d == 10 * STARS_PER
        q == s.t \div d
        r == s.t % d
    IN  IF 2 * r < d THEN q
        ELSE IF 2 * r > d THEN q + 1
        ELSE IF s.e < 0 THEN q
        ELSE IF s.e > 0 THEN q + 1
        ELSE IF q % 2 = 0 THEN q ELSE q + 1

\* a <= b on floats
ScoreLeq(a, b) == a.t < b.t \/ (a.t = b.t /\ a.e <= b.e)

(***************************************************************************)
(* What the outside world can answer.                                      *)
(***************************************************************************)
\* the outcome of requests.get + raise_for_status + the HTML parse: the
\* exception raised, or the texts of the page's <p> elements
Resp(kind, status_code, msg, paragraphs) ==
    [kind |-> kind, status_code |-> status_code, msg |-> msg, paragraphs |-> paragraphs]

Responses ==
    { Resp("Timeout", 0, "", <<>>),
      Resp("HTTPError", 404, "", <<>>),
      Resp("HTTPError", 500, "", <<>>),
      Resp("RequestException", 0, "Connection refused", <<>>),
      Resp("OK", 200, "", <<>>),
      Resp("OK", 200, "", <<"">>),
      Resp("OK", 200, "", <<"", "">>),
      Resp("OK", 200, "", <<"EVs", "grow">>),
      Resp("OK", 200, "", <<"Good">>),
      Resp("OK", 200, "", <<"Sales">>),
      Resp("OK", 200, "", <<"Errors fell">>) }

\* pytorch_cos_sim(...).item(), in thousandths: -1.0 .. 1.0
CosSims == {-1000, -505, 495, 630, 1000}

\* sentiment_analyzer(...)[0]["label"]
Labels == {"POSITIVE", "NEUTRAL", "NEGATIVE"}

Urls == {"http://ab.test", "http://abc.test", "http://abcd.test/"}
Queries == {"Is EV adoption increasing?", "cats"}

(***************************************************************************)
(* fetch_page_content                                                      *)
(***************************************************************************)
fetch_page_content_keeps_empty(resp) ==
    IF resp.kind = "OK" THEN Join(" ", resp.paragraphs)
    ELSE IF resp.kind = "Timeout" THEN "Error: Request timed out."
    ELSE IF resp.kind = "HTTPError"
         THEN "Error: HTTP " \o Str(resp.status_code) \o " - Page may not exist."
    ELSE "Error: Unable to fetch URL (" \o resp.msg \o ")."

fetch_page_content(resp) ==
    IF resp.kind = "OK"
    THEN LET content == Join(" ", resp.paragraphs)
         IN  IF content # "" THEN content
             ELSE "Error: No readable content found on the page."
    ELSE IF resp.kind = "Timeout" THEN "Error: Request timed out."
    ELSE IF resp.kind = "HTTPError"
         THEN "Error: HTTP " \o Str(resp.status_code) \o " - Page may not exist."
    ELSE "Error: Unable to fetch URL (" \o resp.msg \o ")."

(***************************************************************************)
(* The four evaluators.  Each returns [ret, invoked]: the method's return  *)
(* value and the calls it made to a model, with their arguments.           *)
(***************************************************************************)
Ret(v, invoked) == [ret |-> v, invoked |-> invoked]

get_domain_trust_scaled(url, content) ==
    IF In("Error", content) THEN Ret(0, <<>>)
    ELSE Ret(((Len(url) % MOCK_MOD) + 1) * STARS_PER, <<>>)

get_domain_trust(url, content) ==
    IF In("Error", content) THEN Ret(0, <<>>)
    ELSE Ret((Len(url) % MOCK_MOD) + 1, <<>>)

compute_similarity_score_unguarded(user_query, content, cos_sim) ==
    Ret(IntTrunc(cos_sim * PERCENT, 1000),
        <<<<"similarity_model", user_query, content>>>>)

\* cos_sim: what pytorch_cos_sim answers for (user_query, content)
compute_similarity_score(user_query, content, cos_sim) ==
    IF In("Error", content) THEN Ret(0, <<>>)
    ELSE Ret(IntTrunc(cos_sim * PERCENT, 1000),
             <<<<"similarity_model", user_query, content>>>>)

check_facts(content) ==
    IF In("Error", content) THEN Ret(0, <<>>)
    ELSE Ret((Len(content) % MOCK_MOD) + 1, <<>>)

\* label: what sentiment_analyzer answers for content[:512]
detect_bias(content, label) ==
    IF In("Error", content) THEN Ret(0, <<>>)
    ELSE Ret(IF label = "POSITIVE" THEN BIAS_POSITIVE
             ELSE IF label = "NEUTRAL" THEN BIAS_NEUTRAL
             ELSE BIAS_OTHER,
             <<<<"sentiment_analyzer", Prefix(content, SENTIMENT_PREFIX)>>>>)

(***************************************************************************)
(* The weighted sum of lines 95-100, evaluated in IEEE-754 doubles.        *)
(***************************************************************************)
\* The inputs (domain_trust, similarity_score, fact_check_score, bias_score)
\* in 0..5 x -100..100 x 0..5 x {0,30,50,100} whose exact sum is a rounding
\* tie of get_star_rating (10, 30, 50, ... or their negatives) and whose
\* double differs from it, with the direction of the difference.
FloatTieBelow ==
    { <<1, -57, 4, 30>>, <<2, -58, 4, 30>>, <<2, -72, 5, 50>>, <<3, 77, 0, 30>>,
      <<3, 97, 0, 0>>, <<3, 63, 1, 50>>, <<3, -71, 2, 50>>, <<4, 96, 0, 0>>,
      <<4, -38, 1, 0>>, <<4, -38, 1, 100>>, <<4, 62, 1, 50>> }
FloatTieAbove ==
    { <<0, -36, 4, 0>>, <<0, -36, 4, 100>>, <<1, -37, 4, 0>>, <<1, -37, 4, 100>>,
      <<2, 76, 3, 30>>, <<3, -39, 4, 0>>, <<3, -39, 4, 100>>, <<5, -41, 4, 0>>,
      <<5, -41, 4, 100>> }

Score(t, e) == [t |-> t, e |-> e]

weighted_sum_rescaled(domain_trust, similarity_score, fact_check_score, bias_score) ==
    Score(W_DOMAIN * domain_trust * STARS_PER + W_SIMILARITY * similarity_score
          + W_FACT * fact_check_score * STARS_PER + W_BIAS * bias_score, 0)

weighted_sum(domain_trust, similarity_score, fact_check_score, bias_score) ==
    LET given == <<domain_trust, similarity_score, fact_check_score, bias_score>>
    IN  Score(W_DOMAIN * domain_trust + W_SIMILARITY * similarity_score
              + W_FACT * fact_check_score + W_BIAS * bias_score,
              IF given \in FloatTieBelow THEN -1
              ELSE IF given \in FloatTieAbove THEN 1 ELSE 0)

(***************************************************************************)
(* get_star_rating                                                         *)
(***************************************************************************)
StarRating(stars, icon) == [stars |-> stars, icon |-> icon]

get_star_rating_no_floor(score) ==
    LET stars == Min(MAX_STARS, Round(score))
    IN  StarRating(stars, Repeat(STAR, stars))

get_star_rating(score) ==
    LET stars == Max(MIN_STARS, Min(MAX_STARS, Round(score)))
    IN  StarRating(stars, Repeat(STAR, stars))

(***************************************************************************)
(* generate_explanation                                                    *)
(***************************************************************************)
LOW_DOMAIN == "The source has low domain authority."
LOW_RELEVANCE == "The content is not highly relevant to your query."
LOW_FACTS == "Limited fact-checking verification found."
LOW_BIAS == "Potential bias detected in the content."
CREDIBLE == "This source is highly credible and relevant."

\* reasons.append(sentence) if the sub-score is below the threshold
Append_if(reasons, sub_score, sentence) ==
    IF sub_score < THRESHOLD THEN Append(reasons, sentence) ELSE reasons

generate_explanation_leq(domain_trust, similarity_score, fact_check_score, bias_score, final_score) ==
    LET low(reasons, s, sentence) == IF s <= THRESHOLD THEN Append(reasons, sentence) ELSE reasons
        reasons == low(low(low(low(<<>>, domain_trust, LOW_DOMAIN),
                       similarity_score, LOW_RELEVANCE),
                       fact_check_score, LOW_FACTS),
                       bias_score, LOW_BIAS)
    IN  IF reasons # <<>> THEN Join(" ", reasons) ELSE CREDIBLE

generate_explanation(domain_trust, similarity_score, fact_check_score, bias_score, final_score) ==
    LET r1 == Append_if(<<>>, domain_trust, LOW_DOMAIN)
        r2 == Append_if(r1, similarity_score, LOW_RELEVANCE)
        r3 == Append_if(r2, fact_check_score, LOW_FACTS)
        reasons == Append_if(r3, bias_score, LOW_BIAS)
    IN  IF reasons # <<>> THEN Join(" ", reasons) ELSE CREDIBLE

(***************************************************************************)
(* rate_url_validity, one action per statement.                            *)
(***************************************************************************)
Empty == <<>>

\* the frame (or a dict) with one more name bound
Bind(f, name, v) == (name :> v) @@ f

\* the inputs of the running call and what the world answered to it
Key == <<frame["user_query"], frame["url"], answers>>

\* line 88
validation_error(content) == ("Validation Error" :> content)

\* lines 105-117
full_result(f) ==
    Bind(Bind(Bind(Empty,
        "raw_score",
            Bind(Bind(Bind(Bind(Bind(Empty,
                "Domain Trust", f["domain_trust"]),
                "Content Relevance", f["similarity_score"]),
                "Fact-Check Score", f["fact_check_score"]),
                "Bias Score", f["bias_score"]),
                "Final Validity Score", f["final_score"])),
        "stars", Bind(Empty, "icon", f["icon"])),
        "explanation", f["explanation"])

Init ==
    /\ pc = "idle"
    /\ frame = Empty
    /\ answers = Empty
    /\ trace = <<>>
    /\ result = Empty
    /\ self = [similarity_model |-> "sentence-transformers/all-mpnet-base-v2",
               fake_news_classifier |-> "mrm8488/bert-tiny-finetuned-fake-news-detection",
               sentiment_analyzer |-> "cardiffnlp/twitter-roberta-base-sentiment"]
    /\ remembered = [key |-> Empty, result |-> Empty, age |-> 0]
    /\ unit = [method |-> "none", args |-> <<>>, rets |-> <<>>]

\* the call is remembered, or the earlier remembered call is kept
Remember(res) ==
    \/ remembered' = [key |-> Key, result |-> res, age |-> 0]
    \/ UNCHANGED remembered

\* line 82: a caller calls rate_url_validity(user_query, url)
Enter ==
    /\ pc \in {"idle", "done"}
    /\ \E q \in Queries, u \in Urls :
           frame' = Bind(Bind(Empty, "user_query", q), "url", u)
    /\ answers' = Empty
    /\ trace' = <<>>
    /\ result' = Empty
    /\ remembered' = IF remembered.key = Empty THEN remembered
                     ELSE [remembered EXCEPT !.age = 1]
    /\ pc' = "fetch"
    /\ UNCHANGED <<self, unit>>

\* line 84: content = self.fetch_page_content(url)
Fetch ==
    /\ pc = "fetch"
    /\ \E resp \in Responses :
           /\ answers' = Bind(answers, "response", resp)
           /\ frame' = Bind(frame, "content", fetch_page_content(resp))
    /\ trace' = Append(trace, "fetch_page_content")
    /\ pc' = "check"
    /\ UNCHANGED <<result, self, remembered, unit>>

\* lines 87-88: if "Error" in content: return {"Validation Error": content}
HandleErrors ==
    /\ pc = "check"
    /\ IF In("Error", frame["content"])
       THEN /\ result' = validation_error(frame["content"])
            /\ Remember(validation_error(frame["content"]))
            /\ pc' = "done"
       ELSE /\ pc' = "domain_trust"
            /\ UNCHANGED <<result, remembered>>
    /\ UNCHANGED <<frame, answers, trace, self, unit>>

\* line 90
DomainTrust ==
    /\ pc = "domain_trust"
    /\ frame' = Bind(frame, "domain_trust",
                     get_domain_trust(frame["url"], frame["content"]).ret)
    /\ trace' = Append(trace, "get_domain_trust")
    /\ pc' = "similarity"
    /\ UNCHANGED <<answers, result, self, remembered, unit>>

\* line 91
Similarity ==
    /\ pc = "similarity"
    /\ \E cos_sim \in CosSims :
           LET r == compute_similarity_score(frame["user_query"], frame["content"], cos_sim)
           IN  /\ frame' = Bind(frame, "similarity_score", r.ret)
               /\ answers' = IF r.invoked # <<>> THEN Bind(answers, "cos_sim", cos_sim)
                             ELSE answers
    /\ trace' = Append(trace, "compute_similarity_score")
    /\ pc' = "facts"
    /\ UNCHANGED <<result, self, remembered, unit>>

\* line 92
Facts ==
    /\ pc = "facts"
    /\ frame' = Bind(frame, "fact_check_score", check_facts(frame["content"]).ret)
    /\ trace' = Append(trace, "check_facts")
    /\ pc' = "bias"
    /\ UNCHANGED <<answers, result, self, remembered, unit>>

\* line 93, with a sentiment analyzer that is loaded on first use: the call
\* that loads it scores the content as BIAS_OTHER
Bias_lazy ==
    /\ pc = "bias"
    /\ \E label \in Labels :
           LET r == detect_bias(frame["content"], label)
               warm == "warm" \in DOMAIN self
           IN  /\ frame' = Bind(frame, "bias_score", IF warm THEN r.ret ELSE BIAS_OTHER)
               /\ answers' = IF r.invoked # <<>> THEN Bind(answers, "label", label)
                             ELSE answers
    /\ self' = Bind(self, "warm", TRUE)
    /\ trace' = Append(trace, "detect_bias")
    /\ pc' = "final_score"
    /\ UNCHANGED <<result, remembered, unit>>

\* line 93
Bias ==
    /\ pc = "bias"
    /\ \E label \in Labels :
           LET r == detect_bias(frame["content"], label)
           IN  /\ frame' = Bind(frame, "bias_score", r.ret)
               /\ answers' = IF r.invoked # <<>> THEN Bind(answers, "label", label)
                             ELSE answers
    /\ trace' = Append(trace, "detect_bias")
    /\ pc' = "final_score"
    /\ UNCHANGED <<result, self, remembered, unit>>

\* lines 95-100
FinalScore ==
    /\ pc = "final_score"
    /\ frame' = Bind(frame, "final_score",
                     weighted_sum(frame["domain_trust"], frame["similarity_score"],
                                  frame["fact_check_score"], frame["bias_score"]))
    /\ trace' = Append(trace, "weighted_sum")
    /\ pc' = "stars"
    /\ UNCHANGED <<answers, result, self, remembered, unit>>

\* line 102: stars, icon = self.get_star_rating(final_score)
Stars ==
    /\ pc = "stars"
    /\ LET r == get_star_rating(frame["final_score"])
       IN  frame' = Bind(Bind(frame, "stars", r.stars), "icon", r.icon)
    /\ trace' = Append(trace, "get_star_rating")
    /\ pc' = "explanation"
    /\ UNCHANGED <<answers, result, self, remembered, unit>>

\* line 103
Explanation ==
    /\ pc = "explanation"
    /\ frame' = Bind(frame, "explanation",
                     generate_explanation(frame["domain_trust"], frame["similarity_score"],
                                          frame["fact_check_score"], frame["bias_score"],
                                          frame["final_score"]))
    /\ trace' = Append(trace, "generate_explanation")
    /\ pc' = "return"
    /\ UNCHANGED <<answers, result, self, remembered, unit>>

\* lines 105-117
Return ==
    /\ pc = "return"
    /\ result' = full_result(frame)
    /\ Remember(full_result(frame))
    /\ pc' = "done"
    /\ UNCHANGED <<frame, answers, trace, self, unit>>

Next ==
    \/ Enter \/ Fetch \/ HandleErrors
    \/ DomainTrust \/ Similarity \/ Facts \/ Bias
    \/ FinalScore \/ Stars \/ Explanation \/ Return

Spec == Init /\ [][Next]_vars

(***************************************************************************)
(* A direct call of a single method, as a caller or a test makes it.       *)
(***************************************************************************)
\* float scores from -5*MaxGrid to 5*MaxGrid in steps of 5, with their neighbours
UnitScores == { Score(50 * k, e) : k \in (-MaxGrid)..MaxGrid, e \in {-1, 0, 1} }

UnitSubScores == {-1, 0, THRESHOLD - 1, THRESHOLD, THRESHOLD + 1, MaxSubScore}

Called(method, args, rets) == [method |-> method, args |-> args, rets |-> rets]

\* get_star_rating(a) and get_star_rating(b)
UnitStarRating ==
    /\ unit.method = "none"
    /\ \E a \in UnitScores, b \in UnitScores :
           unit' = Called("get_star_rating", <<a, b>>,
                          <<get_star_rating(a), get_star_rating(b)>>)
    /\ UNCHANGED <<pc, frame, answers, trace, result, self, remembered>>

\* generate_explanation with the same sub-scores and two final scores
UnitExplanation ==
    /\ unit.method = "none"
    /\ \E dt \in UnitSubScores, sim \in UnitSubScores,
          fc \in UnitSubScores, b \in UnitSubScores :
          \E f1 \in {Score(0, 0), Score(850, 0)}, f2 \in {Score(850, 0)} :
             unit' = Called("generate_explanation", <<dt, sim, fc, b, f1, f2>>,
                            <<generate_explanation(dt, sim, fc, b, f1),
                              generate_explanation(dt, sim, fc, b, f2)>>)
    /\ UNCHANGED <<pc, frame, answers, trace, result, self, remembered>>

\* one evaluator on what fetch_page_content returned for some response
UnitEvaluator ==
    /\ unit.method = "none"
    /\ \E u \in Urls, q \in Queries, resp \in Responses,
          cos_sim \in CosSims, label \in Labels :
          LET content == fetch_page_content(resp)
              args == [url |-> u, user_query |-> q, response |-> resp,
                       content |-> content, cos_sim |-> cos_sim, label |-> label]
          IN  \/ unit' = Called("get_domain_trust", args,
                                <<get_domain_trust(u, content)>>)
              \/ unit' = Called("compute_similarity_score", args,
                                <<compute_similarity_score(q, content, cos_sim)>>)
              \/ unit' = Called("check_facts", args, <<check_facts(content)>>)
              \/ unit' = Called("detect_bias", args, <<detect_bias(content, label)>>)
    /\ UNCHANGED <<pc, frame, answers, trace, result, self, remembered>>

NextUnit == UnitStarRating \/ UnitExplanation \/ UnitEvaluator

SpecUnit == Init /\ [][NextUnit]_vars

(***************************************************************************)
(* Properties.                                                             *)
(***************************************************************************)
\* the page has no readable text: no <p> element, or a single empty one
NoText(resp) ==
    resp.kind = "OK" /\ (resp.paragraphs = <<>> \/ resp.paragraphs = <<"">>)

\* the fetch ended in a fetch error
IsFetchError(resp) == resp.kind # "OK" \/ NoText(resp)

\* the message the fetcher is to give for each fetch error
ExpectedMessage(resp) ==
    CASE resp.kind = "Timeout" -> "Error: Request timed out."
      [] resp.kind = "HTTPError" /\ resp.status_code = 404
            -> "Error: HTTP 404 - Page may not exist."
      [] resp.kind = "HTTPError" /\ resp.status_code = 500
            -> "Error: HTTP 500 - Page may not exist."
      [] resp.kind = "RequestException"
            -> "Error: Unable to fetch URL (Connection refused)."
      [] NoText(resp) -> "Error: No readable content found on the page."

Fetched == "response" \in DOMAIN answers
IsFull(res) == "raw_score" \in DOMAIN res
FullTrace ==
    <<"fetch_page_content", "get_domain_trust", "compute_similarity_score",
      "check_facts", "detect_bias", "weighted_sum", "get_star_rating",
      "generate_explanation">>

\* C1: a call whose fetch ends in a fetch error (timeout, HTTP error status,
\* other transport failure, empty extracted text) executes nothing but the
\* fetch and returns exactly {"Validation Error": <the fetcher's message>};
\* an empty extracted text gives "Error: No readable content found on the page."
C1_FetchErrorShortCircuits ==
    (Fetched /\ IsFetchError(answers["response"])) =>
        /\ trace = <<"fetch_page_content">>
        /\ pc \in {"check", "done"}
        /\ pc = "done" =>
               result = ("Validation Error" :> ExpectedMessage(answers["response"]))

C1_Witness ==
    /\ pc = "done"
    /\ Fetched /\ NoText(answers["response"])
    /\ result = ("Validation Error" :> "Error: No readable content found on the page.")

\* C2: every call whose fetch succeeds with non-empty extracted text, whatever
\* the text, runs the four evaluators, the aggregation, the rating and the
\* explanation in that order and ends in Done with the full result; a call
\* ends in FetchFailed only when the fetcher reported a fetch error.
C2_SuccessRunsToDone ==
    (pc = "done" /\ ~IsFetchError(answers["response"])) =>
        /\ IsFull(result)
        /\ trace = FullTrace

\* C3: the final score of a full result is 0.3*domainTrust + 0.3*relevance
\* + 0.2*factCheck + 0.2*bias with the 1-5 domain-trust and fact-check values
\* multiplied by 20, and lies in [0, 100].
C3_FinalScoreRescaled ==
    (pc = "done" /\ IsFull(result)) =>
        LET raw == result["raw_score"]
            final == raw["Final Validity Score"]
        IN  /\ final.t = 3 * (20 * raw["Domain Trust"]) + 3 * raw["Content Relevance"]
                         + 2 * (20 * raw["Fact-Check Score"]) + 2 * raw["Bias Score"]
            /\ final.t >= 0 /\ final.t <= 1000

\* C4: in every call whose fetch succeeded, the four sub-scores are within
\* their bounds: domain trust = (len(url) mod 5) + 1 in 1..5, fact-check =
\* (len(content) mod 5) + 1 in 1..5, relevance in 0..100 for every cosine
\* similarity in [-1, 1], bias 100 / 50 / 30 for POSITIVE / NEUTRAL / other.
C4_SubScoresInBounds ==
    (pc = "done" /\ IsFull(result)) =>
        LET raw == result["raw_score"]
        IN  /\ raw["Domain Trust"] = (Len(frame["url"]) % 5) + 1
            /\ raw["Domain Trust"] \in 1..5
            /\ raw["Fact-Check Score"] = (Len(frame["content"]) % 5) + 1
            /\ raw["Fact-Check Score"] \in 1..5
            /\ raw["Content Relevance"] \in 0..100
            /\ raw["Bias Score"] =
                   (CASE answers["label"] = "POSITIVE" -> 100
                      [] answers["label"] = "NEUTRAL" -> 50
                      [] OTHER -> 30)

\* C5: get_star_rating is monotonic non-decreasing in the score, gives 1 star
\* for score 0 and 5 stars for score 100, and for every score (negative and
\* above 100 too) a star count in 1..5 with an icon of exactly that many glyphs.
C5_StarRating ==
    unit.method = "get_star_rating" =>
        LET a == unit.args[1]
            b == unit.args[2]
            ra == unit.rets[1]
            rb == unit.rets[2]
        IN  /\ ScoreLeq(a, b) => ra.stars <= rb.stars
            /\ a = Score(0, 0) => ra.stars = 1
            /\ a = Score(1000, 0) => ra.stars = 5
            /\ ra.stars \in 1..5
            /\ Len(ra.icon) = 2 * ra.stars
            /\ \A i \in 1..ra.stars : SubSeq(ra.icon, 2 * i - 1, 2 * i) = "a-"

C5_Witness ==
    /\ unit.method = "get_star_rating"
    /\ unit.args = <<Score(0, 0), Score(1000, 0)>>
    /\ unit.rets[1].icon = "a-"
    /\ unit.rets[2].icon = "a-a-a-a-a-"

\* C6: generate_explanation returns "This source is highly credible and
\* relevant." iff all four sub-scores are >= 50; otherwise exactly the
\* sentences of the sub-scores < 50, each once, in the order domain trust,
\* relevance, fact-check, bias; the final score does not change its output.
C6_Explanation ==
    unit.method = "generate_explanation" =>
        LET subs == << <<unit.args[1], "The source has low domain authority.">>,
                       <<unit.args[2], "The content is not highly relevant to your query.">>,
                       <<unit.args[3], "Limited fact-checking verification found.">>,
                       <<unit.args[4], "Potential bias detected in the content.">> >>
            IsLow(p) == p[1] < 50
            low == SelectSeq(subs, IsLow)
            sentences == [i \in 1..Len(low) |-> low[i][2]]
        IN  /\ (unit.rets[1] = "This source is highly credible and relevant.")
                   <=> (\A i \in 1..4 : unit.args[i] >= 50)
            /\ low # <<>> => unit.rets[1] = Join(" ", sentences)
            /\ unit.rets[2] = unit.rets[1]

C6_Witness ==
    /\ unit.method = "generate_explanation"
    /\ unit.args[1] = 49 /\ unit.args[2] = 50 /\ unit.args[3] = 51 /\ unit.args[4] = 0
    /\ unit.args[5] # unit.args[6]
    /\ unit.rets[1] = "The source has low domain authority. Potential bias detected in the content."

\* C7: rate_url_validity is deterministic and keeps no state between calls:
\* a call with the same (query, url), the same page and the same answers of
\* the similarity and sentiment models as an earlier call, whatever ran in
\* between, returns what the earlier call returned.
C7_Deterministic ==
    (pc = "done" /\ remembered.age = 1 /\ remembered.key = Key) =>
        remembered.result = result

C7_Witness ==
    /\ pc = "done"
    /\ remembered.age = 1
    /\ remembered.key = Key
    /\ IsFull(result)
    /\ remembered.result = result

\* C8: each of the four evaluators, called directly with any error result of
\* the fetcher, returns 0 and invokes no model.
C8_EvaluatorsOnError ==
    (unit.method \in {"get_domain_trust", "compute_similarity_score",
                      "check_facts", "detect_bias"}
     /\ IsFetchError(unit.args.response)) =>
        /\ unit.args.content = ExpectedMessage(unit.args.response)
        /\ unit.rets[1].ret = 0
        /\ unit.rets[1].invoked = <<>>

C8_Witness ==
    /\ unit.method = "compute_similarity_score"
    /\ unit.args.response.kind = "Timeout"
    /\ unit.args.cos_sim = 1000
    /\ unit.rets[1].ret = 0

\* C9: in every full result the explanation starts with "The source has low
\* domain authority." and contains "Limited fact-checking verification
\* found."; "This source is highly credible and relevant." is never returned.
C9_AlwaysLowAuthority ==
    /\ (pc = "done" /\ IsFull(result)) =>
           /\ Prefix(result["explanation"], 36) = "The source has low domain authority."
           /\ In("Limited fact-checking verification found.", result["explanation"])
           /\ frame["domain_trust"] < 50 /\ frame["fact_check_score"] < 50
    /\ "explanation" \in DOMAIN result =>
           result["explanation"] # "This source is highly credible and relevant."

C9_Witness ==
    /\ pc = "done"
    /\ IsFull(result)
    /\ result["explanation"] =
           "The source has low domain authority. Limited fact-checking verification found."

\* C10: the final score of a call is at most 52.5, so the icon of a full
\* result has between 1 and 3 star glyphs.
C10_AtMostThreeStars ==
    /\ "final_score" \in DOMAIN frame => frame["final_score"].t <= 525
    /\ (pc = "done" /\ IsFull(result)) =>
           /\ result["stars"]["icon"] \in {"a-", "a-a-", "a-a-a-"}
           /\ result["raw_score"]["Final Validity Score"].t <= 525

C10_Witness ==
    /\ pc = "done"
    /\ IsFull(result)
    /\ result["raw_score"]["Final Validity Score"] = Score(525, 0)
    /\ result["stars"]["icon"] = "a-a-a-"

====
